---------------------------- MODULE Spec2Model ----------------------------
(***************************************************************************)
(* The student object model of project.cpp: BasicStudent, the decorators,  *)
(* the factory, the builder and the University registry.                   *)
(*                                                                         *)
(* Objects created with std::make_shared live in `heap`; a                 *)
(* std::shared_ptr<Student> is an index into it.  The client keeps every   *)
(* pointer it was given, so no object is ever released.  `trace` is the    *)
(* client's side of the program: the calls it has made so far, each with   *)
(* its arguments and the value it got back.                                *)
(***************************************************************************)
EXTENDS Integers, Sequences, FiniteSets, TLC

\* The client makes at most MaxCalls calls.
MaxCalls == 4
\* Under SpecFactory the factory is called at most MaxFactoryCalls times, with
\* category lists of at most MaxCats names.
MaxFactoryCalls == 2
MaxCats == 2

Names == {"Math", "Physics"}
Courses == {"", "Advanced Quantum Mechanics"}

\* The category lists the client passes under Spec.
CategoryLists == {<<"Math">>, <<"Physics">>, <<"Math", "Physics">>}

RECURSIVE SeqsUpTo(_, _)
SeqsUpTo(S, n) ==
    IF n = 0 THEN {<<>>}
    ELSE LET shorter == SeqsUpTo(S, n - 1)
         IN  shorter \cup {Append(s, x) : s \in {t \in shorter : Len(t) = n - 1}, x \in S}

\* Every category list of at most MaxCats names: the empty one, duplicates, both orders.
AllCategoryLists == SeqsUpTo(Names, MaxCats)

VARIABLES
    heap,       \* the objects made by std::make_shared, in order of creation
    builder,    \* the fields of the BasicStudentBuilder
    students,   \* University::students of the singleton
    trace       \* the calls made so far, with arguments and results

vars == <<heap, builder, students, trace>>

---------------------------------------------------------------------------
(* Objects *)

BasicStudent(categories, testToSkipLevels) ==
    [kind |-> "BasicStudent", categories |-> categories,
     testToSkipLevels |-> testToSkipLevels]

StudentDecorator(baseStudent) ==
    [kind |-> "StudentDecorator", baseStudent |-> baseStudent]

TutoringSupportDecorator(baseStudent) ==
    [kind |-> "TutoringSupportDecorator", baseStudent |-> baseStudent]

\* std::make_shared: a new object, and the pointer to it.
make_shared(h, obj) == [heap |-> Append(h, obj), ptr |-> Len(h) + 1]

\* The virtual calls, dispatched on the dynamic type of h[p].
RECURSIVE clone(_, _)
RECURSIVE canTakeCourse(_, _, _)
RECURSIVE hasTestToSkipLevels(_, _)
RECURSIVE getCategories(_, _)

\* A variant of BasicStudent::clone handing back the receiver itself.
BasicStudent_clone_self(h, p) == [heap |-> h, ptr |-> p]

BasicStudent_clone(h, p) ==
    make_shared(h, BasicStudent(h[p].categories, h[p].testToSkipLevels))

\* canTakeCourse gives its result and the objects the call ran on, the
\* receiver first.
BasicStudent_canTakeCourse(h, p, course) == [ret |-> TRUE, calls |-> <<p>>]

BasicStudent_hasTestToSkipLevels(h, p) == h[p].testToSkipLevels

BasicStudent_getCategories(h, p) == h[p].categories

\* A variant of StudentDecorator::clone that wraps the inner clone in a new
\* decorator.
StudentDecorator_clone_wrapped(h, p) ==
    LET r == clone(h, h[p].baseStudent)
    IN  make_shared(r.heap, StudentDecorator(r.ptr))

StudentDecorator_clone(h, p) == clone(h, h[p].baseStudent)

StudentDecorator_canTakeCourse(h, p, course) ==
    LET r == canTakeCourse(h, h[p].baseStudent, course)
    IN  [ret |-> r.ret, calls |-> <<p>> \o r.calls]

StudentDecorator_hasTestToSkipLevels(h, p) ==
    hasTestToSkipLevels(h, h[p].baseStudent)

\* A variant of StudentDecorator::getCategories answering with a list of the
\* decorator's own, which is empty.
StudentDecorator_getCategories_own(h, p) == <<>>

StudentDecorator_getCategories(h, p) == getCategories(h, h[p].baseStudent)

\* TutoringSupportDecorator without its override: the inherited method runs.
TutoringSupportDecorator_canTakeCourse_inherited(h, p, course) ==
    LET r == canTakeCourse(h, h[p].baseStudent, course)
    IN  [ret |-> r.ret, calls |-> <<p>> \o r.calls]

TutoringSupportDecorator_canTakeCourse(h, p, course) ==
    [ret |-> TRUE, calls |-> <<p>>]

clone(h, p) ==
    IF h[p].kind = "BasicStudent" THEN BasicStudent_clone(h, p)
    ELSE StudentDecorator_clone(h, p)

canTakeCourse(h, p, course) ==
    CASE h[p].kind = "BasicStudent" -> BasicStudent_canTakeCourse(h, p, course)
      [] h[p].kind = "StudentDecorator" -> StudentDecorator_canTakeCourse(h, p, course)
      [] h[p].kind = "TutoringSupportDecorator" ->
            TutoringSupportDecorator_canTakeCourse(h, p, course)

hasTestToSkipLevels(h, p) ==
    IF h[p].kind = "BasicStudent" THEN BasicStudent_hasTestToSkipLevels(h, p)
    ELSE StudentDecorator_hasTestToSkipLevels(h, p)

getCategories(h, p) ==
    IF h[p].kind = "BasicStudent" THEN BasicStudent_getCategories(h, p)
    ELSE StudentDecorator_getCategories(h, p)

---------------------------------------------------------------------------
(* Factory, builder, registry *)

\* s without the repetitions of its elements.
RECURSIVE WithoutDuplicates(_)
WithoutDuplicates(s) ==
    IF s = <<>> THEN <<>>
    ELSE LET front == WithoutDuplicates(SubSeq(s, 1, Len(s) - 1))
         IN  IF \E i \in DOMAIN front : front[i] = s[Len(s)] THEN front
             ELSE Append(front, s[Len(s)])

\* A variant of createStudent that keeps each category once.
BasicStudentFactory_createStudent_unique(h, categories, testToSkipLevels) ==
    make_shared(h, BasicStudent(WithoutDuplicates(categories), testToSkipLevels))

BasicStudentFactory_createStudent(h, categories, testToSkipLevels) ==
    make_shared(h, BasicStudent(categories, testToSkipLevels))

BasicStudentBuilder_init == [categories |-> <<>>, testToSkipLevels |-> FALSE]

BasicStudentBuilder_setCategories(b, categories) ==
    [b EXCEPT !.categories = categories]

BasicStudentBuilder_setTestToSkipLevels(b, testToSkipLevels) ==
    [b EXCEPT !.testToSkipLevels = testToSkipLevels]

\* A variant of build() that resets the builder once the student is made.
BasicStudentBuilder_build_reset(h, b) ==
    [made |-> make_shared(h, BasicStudent(b.categories, b.testToSkipLevels)),
     builder |-> [categories |-> <<>>, testToSkipLevels |-> FALSE]]

\* build() makes a student and leaves the builder as `builder`.
BasicStudentBuilder_build(h, b) ==
    [made |-> make_shared(h, BasicStudent(b.categories, b.testToSkipLevels)),
     builder |-> b]

\* Variants of addStudent: inserting at the front, skipping a student already
\* present, pushing twice.
University_addStudent_front(s, student) == <<student>> \o s

University_addStudent_unique(s, student) ==
    IF \E i \in DOMAIN s : s[i] = student THEN s ELSE Append(s, student)

University_addStudent_twice(s, student) == Append(Append(s, student), student)

University_addStudent(s, student) == Append(s, student)

\* A variant of getStudents returning a reference to the member.
University_getStudents_ref(s) == [byRef |-> TRUE, elems |-> <<>>]

\* getStudents returns the vector by value: a copy of the elements, not a
\* reference to the member.
University_getStudents(s) == [byRef |-> FALSE, elems |-> s]

\* What a vector the client was handed holds, the registry being s.
Deref(v, s) == IF v.byRef THEN s ELSE v.elems

---------------------------------------------------------------------------
(* The client's calls *)

Pointers == 1..Len(heap)

Init ==
    /\ heap = <<>>
    /\ builder = BasicStudentBuilder_init
    /\ students = <<>>
    /\ trace = <<>>

CreateStudent(inputs, maxCalls) ==
    \E categories \in inputs, testToSkipLevels \in BOOLEAN :
        LET r == BasicStudentFactory_createStudent(heap, categories, testToSkipLevels)
        IN  /\ Len(trace) < maxCalls
            /\ heap' = r.heap
            /\ trace' = Append(trace, [op |-> "createStudent", categories |-> categories,
                                       testToSkipLevels |-> testToSkipLevels,
                                       ret |-> r.ptr])
            /\ UNCHANGED <<builder, students>>

SetCategories ==
    \E categories \in CategoryLists :
        /\ Len(trace) < MaxCalls
        /\ builder' = BasicStudentBuilder_setCategories(builder, categories)
        /\ trace' = Append(trace, [op |-> "setCategories", categories |-> categories])
        /\ UNCHANGED <<heap, students>>

SetTestToSkipLevels ==
    \E testToSkipLevels \in BOOLEAN :
        /\ Len(trace) < MaxCalls
        /\ builder' = BasicStudentBuilder_setTestToSkipLevels(builder, testToSkipLevels)
        /\ trace' = Append(trace, [op |-> "setTestToSkipLevels",
                                   testToSkipLevels |-> testToSkipLevels])
        /\ UNCHANGED <<heap, students>>

Build ==
    LET r == BasicStudentBuilder_build(heap, builder)
    IN  /\ Len(trace) < MaxCalls
        /\ heap' = r.made.heap
        /\ builder' = r.builder
        /\ trace' = Append(trace, [op |-> "build", ret |-> r.made.ptr])
        /\ UNCHANGED students

Clone ==
    \E student \in Pointers :
        LET r == clone(heap, student)
        IN  /\ Len(trace) < MaxCalls
            /\ heap' = r.heap
            /\ trace' = Append(trace, [op |-> "clone", student |-> student, ret |-> r.ptr])
            /\ UNCHANGED <<builder, students>>

NewStudentDecorator ==
    \E baseStudent \in Pointers :
        LET r == make_shared(heap, StudentDecorator(baseStudent))
        IN  /\ Len(trace) < MaxCalls
            /\ heap' = r.heap
            /\ trace' = Append(trace, [op |-> "StudentDecorator",
                                       student |-> baseStudent, ret |-> r.ptr])
            /\ UNCHANGED <<builder, students>>

NewTutoringSupportDecorator ==
    \E baseStudent \in Pointers :
        LET r == make_shared(heap, TutoringSupportDecorator(baseStudent))
        IN  /\ Len(trace) < MaxCalls
            /\ heap' = r.heap
            /\ trace' = Append(trace, [op |-> "TutoringSupportDecorator",
                                       student |-> baseStudent, ret |-> r.ptr])
            /\ UNCHANGED <<builder, students>>

AddStudent ==
    \E student \in Pointers :
        /\ Len(trace) < MaxCalls
        /\ students' = University_addStudent(students, student)
        /\ trace' = Append(trace, [op |-> "addStudent", student |-> student])
        /\ UNCHANGED <<heap, builder>>

GetStudents ==
    /\ Len(trace) < MaxCalls
    /\ trace' = Append(trace, [op |-> "getStudents", ret |-> University_getStudents(students)])
    /\ UNCHANGED <<heap, builder, students>>

Next ==
    \/ CreateStudent(CategoryLists, MaxCalls)
    \/ SetCategories
    \/ SetTestToSkipLevels
    \/ Build
    \/ Clone
    \/ NewStudentDecorator
    \/ NewTutoringSupportDecorator
    \/ AddStudent
    \/ GetStudents

Spec == Init /\ [][Next]_vars

\* The factory alone, on every category list of at most MaxCats names.
NextFactory == CreateStudent(AllCategoryLists, MaxFactoryCalls)

SpecFactory == Init /\ [][NextFactory]_vars

---------------------------------------------------------------------------
(* What the trace tells *)

PointerOps ==
    {"createStudent", "build", "clone", "StudentDecorator", "TutoringSupportDecorator"}

\* The pointers the calls before the i-th returned.
ReturnedBefore(i) ==
    {trace[j].ret : j \in {k \in 1..(i - 1) : trace[k].op \in PointerOps}}

\* The i-th call returned a pointer to an object no earlier call returned.
Fresh(i) == trace[i].ret \in Pointers /\ trace[i].ret \notin ReturnedBefore(i)

IsAddStudent(c) == c.op = "addStudent"

\* The arguments of the addStudent calls made so far, in order.
AddedStudents ==
    LET adds == SelectSeq(trace, IsAddStudent)
    IN  [i \in 1..Len(adds) |-> adds[i].student]

Distinct(s) == \A i, j \in DOMAIN s : i # j => s[i] # s[j]

Count(s, x) == Cardinality({i \in DOMAIN s : s[i] = x})

IsPrefix(s, t) == Len(s) <= Len(t) /\ \A i \in DOMAIN s : s[i] = t[i]

\* What getStudents() returns when called now.
Listing == Deref(University_getStudents(students), students)

\* The Basic student at the end of p's delegation chain.
RECURSIVE Root(_, _)
Root(h, p) == IF h[p].kind = "BasicStudent" THEN p ELSE Root(h, h[p].baseStudent)

RECURSIVE Depth(_, _)
Depth(h, p) == IF h[p].kind = "BasicStudent" THEN 0 ELSE 1 + Depth(h, h[p].baseStudent)

---------------------------------------------------------------------------
(* Registry *)

\* C1: after N addStudent calls with pairwise distinct students s1..sN on the
\* empty registry, getStudents() is exactly <<s1, ..., sN>>.
C1_InsertionOrder ==
    Distinct(AddedStudents) =>
        /\ Len(Listing) = Len(AddedStudents)
        /\ \A i \in DOMAIN AddedStudents : Listing[i] = AddedStudents[i]

C1_Witness ==
    /\ Len(AddedStudents) >= 2
    /\ Distinct(AddedStudents)
    /\ Listing = AddedStudents

\* C2: a vector returned by getStudents() holds, after every later step (an
\* addStudent among them), what it held before the step, and holds the
\* registry's content of the moment it was returned.
C2_Snapshot ==
    [][/\ \A i \in DOMAIN trace :
            trace[i].op = "getStudents" =>
                /\ trace'[i] = trace[i]
                /\ Deref(trace[i].ret, students') = Deref(trace[i].ret, students)
       /\ trace'[Len(trace')].op = "getStudents" =>
            Deref(trace'[Len(trace')].ret, students') = students]_vars

C2_Witness ==
    \E i, j \in DOMAIN trace :
        /\ i < j
        /\ trace[i].op = "getStudents"
        /\ trace[j].op = "addStudent"
        /\ Len(Deref(trace[i].ret, students)) < Len(students)
        /\ Len(Deref(trace[i].ret, students)) > 0

\* C3: every step leaves the registry's collection a prefix of the new one,
\* and a step that changes it is an addStudent call that lengthens it by one.
C3_MonotonicGrowth ==
    [][/\ IsPrefix(students, students')
       /\ students' # students =>
            /\ trace'[Len(trace')].op = "addStudent"
            /\ Len(students') = Len(students) + 1
       /\ trace'[Len(trace')].op = "addStudent" =>
            Len(students') = Len(students) + 1]_vars

C3_Witness ==
    \E i, j \in DOMAIN trace :
        /\ i < j
        /\ trace[i].op = "addStudent"
        /\ trace[j].op \notin {"addStudent", "getStudents"}
        /\ Len(students) >= 2

\* C10: addStudent appends whether or not the student is already there: the
\* listing holds every student as many times as addStudent was called with it.
C10_NoDeduplication ==
    /\ Len(Listing) = Len(AddedStudents)
    /\ \A p \in Pointers : Count(Listing, p) = Count(AddedStudents, p)

C10_Witness ==
    \E p \in Pointers : Count(AddedStudents, p) = 3 /\ Count(Listing, p) = 3

---------------------------------------------------------------------------
(* Builder *)

Max(S) == CHOOSE x \in S : \A y \in S : y <= x

\* The categories and the flag set on the builder by the calls before the
\* i-th: those of the latest setter, or the builder's initial ones.
SetCategoriesBefore(i) ==
    LET js == {j \in 1..(i - 1) : trace[j].op = "setCategories"}
    IN  IF js = {} THEN <<>> ELSE trace[Max(js)].categories

SetTestToSkipLevelsBefore(i) ==
    LET js == {j \in 1..(i - 1) : trace[j].op = "setTestToSkipLevels"}
    IN  IF js = {} THEN FALSE ELSE trace[Max(js)].testToSkipLevels

\* C4: every build() so far returned a new BasicStudent, which now (after
\* whatever setters and builds followed) has the categories and the flag the
\* setters before that build() had accumulated, builds in between resetting
\* nothing.
C4_BuilderReuse ==
    \A i \in DOMAIN trace :
        trace[i].op = "build" =>
            /\ Fresh(i)
            /\ heap[trace[i].ret].kind = "BasicStudent"
            /\ getCategories(heap, trace[i].ret) = SetCategoriesBefore(i)
            /\ hasTestToSkipLevels(heap, trace[i].ret) = SetTestToSkipLevelsBefore(i)

C4_Witness ==
    /\ Len(trace) = 4
    /\ trace[1] = [op |-> "setCategories", categories |-> <<"Math">>]
    /\ trace[2].op = "build"
    /\ trace[3] = [op |-> "setCategories", categories |-> <<"Physics">>]
    /\ trace[4].op = "build"
    /\ trace[2].ret # trace[4].ret
    /\ getCategories(heap, trace[2].ret) = <<"Math">>
    /\ getCategories(heap, trace[4].ret) = <<"Physics">>

---------------------------------------------------------------------------
(* Students and decorators *)

\* C5: every clone() called on a decorator returned a new object that is a
\* BasicStudent, not the wrapped student itself, with the categories and the
\* flag of the student at the end of the decorator's chain.
C5_CloneDropsDecoration ==
    \A i \in DOMAIN trace :
        (trace[i].op = "clone" /\ heap[trace[i].student].kind # "BasicStudent") =>
            LET S == Root(heap, trace[i].student)
            IN  /\ Fresh(i)
                /\ trace[i].ret # S
                /\ heap[trace[i].ret].kind = "BasicStudent"
                /\ heap[trace[i].ret].categories = heap[S].categories
                /\ heap[trace[i].ret].testToSkipLevels = heap[S].testToSkipLevels

C5_Witness ==
    \E i \in DOMAIN trace :
        /\ trace[i].op = "clone"
        /\ Depth(heap, trace[i].student) = 2
        /\ heap[trace[i].ret].kind = "BasicStudent"
        /\ heap[trace[i].ret].categories = <<"Math", "Physics">>

\* C6: on every TutoringSupportDecorator, over a BasicStudent or over another
\* decorator, canTakeCourse gives true for every course, the empty name too,
\* and runs on the decorator alone: the wrapped student is not called.
C6_TutoringAlwaysTrue ==
    \A p \in Pointers :
        heap[p].kind = "TutoringSupportDecorator" =>
            \A course \in Courses :
                /\ canTakeCourse(heap, p, course).ret = TRUE
                /\ canTakeCourse(heap, p, course).calls = <<p>>

C6_Witness ==
    \E p, q \in Pointers :
        /\ heap[p].kind = "TutoringSupportDecorator"
        /\ heap[q].kind = "TutoringSupportDecorator"
        /\ heap[heap[p].baseStudent].kind = "BasicStudent"
        /\ heap[heap[q].baseStudent].kind = "StudentDecorator"
        /\ canTakeCourse(heap, q, "").ret

\* C7: in the state every step leads to, each decorator answers getCategories
\* and hasTestToSkipLevels with the fields of the BasicStudent at the end of
\* its chain; and a step that constructs a decorator, or clones one, leaves
\* every object that existed before it as it was.
C7_DecorationTransparent ==
    [][/\ \A p \in 1..Len(heap') :
            heap'[p].kind # "BasicStudent" =>
                /\ getCategories(heap', p) = heap'[Root(heap', p)].categories
                /\ hasTestToSkipLevels(heap', p) =
                        heap'[Root(heap', p)].testToSkipLevels
       /\ trace'[Len(trace')].op \in {"StudentDecorator", "TutoringSupportDecorator", "clone"} =>
            \A p \in Pointers : heap'[p] = heap[p]]_vars

C7_Witness ==
    \E p \in Pointers :
        /\ heap[p].kind = "TutoringSupportDecorator"
        /\ Depth(heap, p) = 2
        /\ getCategories(heap, p) = <<"Math", "Physics">>
        /\ hasTestToSkipLevels(heap, p)
        /\ trace[Len(trace)].op = "clone"
        /\ trace[Len(trace)].student = p

\* C9: clone() on a BasicStudent returns a new object with the receiver's
\* categories and flag, and no step of any kind changes an object that exists.
C9_CloneIndependent ==
    [][/\ \A p \in Pointers : Len(heap') >= p /\ heap'[p] = heap[p]
       /\ (/\ trace'[Len(trace')].op = "clone"
           /\ heap[trace'[Len(trace')].student].kind = "BasicStudent") =>
            LET S == trace'[Len(trace')].student
                c == trace'[Len(trace')].ret
            IN  /\ c \notin Pointers
                /\ c \in 1..Len(heap')
                /\ getCategories(heap', c) = getCategories(heap, S)
                /\ hasTestToSkipLevels(heap', c) = hasTestToSkipLevels(heap, S)]_vars

C9_Witness ==
    \E i \in DOMAIN trace :
        /\ trace[i].op = "clone"
        /\ heap[trace[i].student].kind = "BasicStudent"
        /\ i < Len(trace)
        /\ trace[i].ret # trace[i].student
        /\ getCategories(heap, trace[i].ret) = getCategories(heap, trace[i].student)

---------------------------------------------------------------------------
(* Factory *)

\* C8: every createStudent(C, F) so far returned a new BasicStudent whose
\* getCategories() is C and whose hasTestToSkipLevels() is F, and in the
\* present state createStudent does so for every category list of at most
\* MaxCats names and either flag.
C8_FactoryRoundTrip ==
    /\ \A i \in DOMAIN trace :
            trace[i].op = "createStudent" =>
                /\ Fresh(i)
                /\ heap[trace[i].ret].kind = "BasicStudent"
                /\ getCategories(heap, trace[i].ret) = trace[i].categories
                /\ hasTestToSkipLevels(heap, trace[i].ret) = trace[i].testToSkipLevels
    /\ \A C \in AllCategoryLists, F \in BOOLEAN :
            LET r == BasicStudentFactory_createStudent(heap, C, F)
            IN  /\ r.ptr \notin Pointers
                /\ r.heap[r.ptr].kind = "BasicStudent"
                /\ getCategories(r.heap, r.ptr) = C
                /\ hasTestToSkipLevels(r.heap, r.ptr) = F

C8_Witness ==
    \E i, j \in DOMAIN trace :
        /\ trace[i].categories = <<>>
        /\ getCategories(heap, trace[i].ret) = <<>>
        /\ trace[j].categories = <<"Math", "Math">>
        /\ getCategories(heap, trace[j].ret) = <<"Math", "Math">>
        /\ hasTestToSkipLevels(heap, trace[j].ret)

=============================================================================
